---------------------------- MODULE Spec2Model ----------------------------
(***************************************************************************)
(* NeuroTrack doctor dashboard: the state bag DoctorDashboard, the section *)
(* controller, the schedule/calendar renderer, the chat renderer           *)
(* (src/assets/js/doctor-dashboard.js) and the login/registration forms    *)
(* (src/assets/js/mock-auth.js), as state machines over the state bag, the *)
(* rendered document and the pending network requests.                     *)
(*                                                                         *)
(* Dates: an event's date is its ISO string "YYYY-MM-DD", kept as the      *)
(* triple <<year, month 1..12, day>>; a JavaScript Date is the record      *)
(* [y, m, d] with m the 0-based month of getMonth().  A time of day        *)
(* "HH:MM" is kept as minutes after midnight.                              *)
(***************************************************************************)
EXTENDS Integers, Sequences, FiniteSets, TLC

VARIABLES
    DoctorDashboard,   \* the state bag (doctor-dashboard.js:7-37)
    FallbackData,      \* the mutable part of FallbackData: chatParticipants
    dom,               \* what the document shows: style.display, innerHTML, classes
    env,               \* the browser's clock: local date, hour, zone offset, ms counter
    pending,           \* fetches issued and not yet completed, per resource
    localStorage,      \* the session store key neurotrack_user
    auth,              \* the login / registration page: inputs, errors, requests
    toggles,           \* history: how often filterEvents toggled each category
    lastOp             \* history: the operation of the last step and its argument

vars == <<DoctorDashboard, FallbackData, dom, env, pending, localStorage, auth,
          toggles, lastOp>>

-----------------------------------------------------------------------------
(* Bounds of the model *)

\* fetches of one resource that may be in flight together
MaxPending == 2
\* the calendar cursor stays within the years 2024 .. 2024 + YearSpan
YearSpan == 2
\* messages the doctor sends in one session
MaxSent == 1
\* milliseconds the clock advances in one session
MaxClock == 1
\* input listeners on the chat search box
MaxListeners == 2


-----------------------------------------------------------------------------
(* JavaScript Date arithmetic *)

isLeapYear(y) == (y % 4 = 0 /\ y % 100 # 0) \/ y % 400 = 0

\* days of month m (0-based) of year y
MonthLength(y, m) ==
    IF m = 1 THEN (IF isLeapYear(y) THEN 29 ELSE 28)
    ELSE IF m \in {3, 5, 8, 10} THEN 30 ELSE 31

RECURSIVE NormalizeDay(_, _, _)
\* day overflow and underflow of new Date(y, m, d) with m already in 0..11
NormalizeDay(y, m, d) ==
    IF d < 1
    THEN LET pm == IF m = 0 THEN 11 ELSE m - 1
             py == IF m = 0 THEN y - 1 ELSE y
         IN  NormalizeDay(py, pm, d + MonthLength(py, pm))
    ELSE IF d > MonthLength(y, m)
    THEN LET nm == IF m = 11 THEN 0 ELSE m + 1
             ny == IF m = 11 THEN y + 1 ELSE y
         IN  NormalizeDay(ny, nm, d - MonthLength(y, m))
    ELSE [y |-> y, m |-> m, d |-> d]

\* new Date(y, m, d): month and day may be out of range and are normalised
NewDate(y, m, d) ==
    LET yy == y + (m \div 12)
        mm == m % 12
    IN  NormalizeDay(yy, mm, d)

LeapsBefore(y) == (y - 1) \div 4 - (y - 1) \div 100 + (y - 1) \div 400

RECURSIVE DaysBeforeMonth(_, _)
DaysBeforeMonth(y, m) ==
    IF m = 0 THEN 0 ELSE DaysBeforeMonth(y, m - 1) + MonthLength(y, m - 1)

\* whole days from 1970-01-01 to the date (m 0-based)
DayNumber(y, m, d) ==
    (y - 1970) * 365 + LeapsBefore(y) - LeapsBefore(1970)
        + DaysBeforeMonth(y, m) + d - 1

\* Date.prototype.getDay(): 0 is Sunday; 1970-01-01 was a Thursday
getDay(date) == (DayNumber(date.y, date.m, date.d) + 4) % 7

\* String(n).padStart(2,'0') joined by '-': the ISO date of (year, month+1, day)
IsoDate(year, month, day) == <<year, month + 1, day>>

\* new Date("YYYY-MM-DD"): midnight UTC of that date, in hours since the epoch
ParseIsoDateUTC(date) == DayNumber(date[1], date[2] - 1, date[3]) * 24

\* new Date(): the present instant, in hours since the epoch (local = UTC + zone)
NowInstant(e) ==
    DayNumber(e.today.y, e.today.m, e.today.d) * 24 + e.hour - e.zone

\* today.setHours(0,0,0,0): local midnight of today, in hours since the epoch
LocalMidnight(e) ==
    DayNumber(e.today.y, e.today.m, e.today.d) * 24 - e.zone

\* new Date(date + 'T' + time): local date-time; the sort key of an event
LocalDateTime(evt) ==
    DayNumber(evt.date[1], evt.date[2] - 1, evt.date[3]) * 1440 + evt.time

-----------------------------------------------------------------------------
(* Data *)

SectionNames == {"dashboard", "schedule", "profile", "messages"}
ScheduleViews == {"calendar", "meetings", "upcoming", "consultations"}
Categories == <<"meeting", "consultation", "therapy", "checkup">>
CategorySet == {Categories[i] : i \in 1..Len(Categories)}

Event(id, title, date, time, category) ==
    [id |-> id, title |-> title, date |-> date, time |-> time,
     category |-> category]

\* FallbackData.calendarEvents (description and icon are display text only)
FallbackCalendarEvents == <<
    Event(1, "Patient Consultation", <<2025, 12, 16>>, 540, "consultation"),
    Event(2, "Team Meeting", <<2025, 12, 16>>, 660, "meeting"),
    Event(3, "Therapy Session", <<2025, 12, 16>>, 840, "therapy"),
    Event(4, "Patient Checkup", <<2025, 12, 17>>, 600, "checkup"),
    Event(5, "Consultation", <<2025, 12, 17>>, 780, "consultation"),
    Event(6, "Department Meeting", <<2025, 12, 18>>, 570, "meeting"),
    Event(7, "Therapy Review", <<2025, 12, 18>>, 900, "therapy"),
    Event(8, "Patient Consultation", <<2025, 12, 19>>, 660, "consultation"),
    Event(9, "Checkup", <<2025, 12, 19>>, 870, "checkup"),
    Event(10, "Team Sync", <<2025, 12, 20>>, 600, "meeting") >>

\* a document served as ../data/calendar-events.json: past, present and
\* future events, one day with more events than a cell shows inline
ServerCalendarEvents == <<
    Event(21, "Ward Round", <<2025, 12, 18>>, 900, "checkup"),
    Event(22, "Old Intake", <<2025, 12, 10>>, 600, "consultation"),
    Event(23, "Board Meeting", <<2025, 12, 18>>, 480, "meeting"),
    Event(24, "Gait Therapy", <<2025, 12, 18>>, 660, "therapy"),
    Event(25, "Morning Call", <<2025, 12, 17>>, 60, "meeting"),
    Event(26, "Follow-up", <<2025, 12, 18>>, 720, "consultation"),
    Event(27, "January Review", <<2026, 1, 5>>, 540, "checkup"),
    Event(28, "Staff Briefing", <<2025, 12, 18>>, 1020, "meeting") >>

-----------------------------------------------------------------------------
(* Sequence helpers: Array.prototype.filter, slice, includes, indexOf, sort *)

Min(a, b) == IF a < b THEN a ELSE b

slice(s, n) == SubSeq(s, 1, Min(n, Len(s)))

includes(s, x) == \E i \in 1..Len(s) : s[i] = x

\* index (1-based) of the first occurrence of x, 0 when absent (indexOf = -1)
indexOf(s, x) ==
    IF includes(s, x) THEN CHOOSE i \in 1..Len(s) :
                               s[i] = x /\ \A j \in 1..(i - 1) : s[j] # x
    ELSE 0

\* splice(index, 1): the array without its element at index
splice(s, i) == SubSeq(s, 1, i - 1) \o SubSeq(s, i + 1, Len(s))

RECURSIVE InsertByKey(_, _)
\* the pair x = <<key, element>> placed after every pair whose key is not
\* greater
InsertByKey(x, sorted) ==
    IF sorted = <<>> THEN <<x>>
    ELSE IF x[1] < Head(sorted)[1]
         THEN <<x>> \o sorted
         ELSE <<Head(sorted)>> \o InsertByKey(x, Tail(sorted))

RECURSIVE SortPairs(_)
SortPairs(pairs) ==
    IF pairs = <<>> THEN <<>>
    ELSE InsertByKey(pairs[Len(pairs)],
                     SortPairs(SubSeq(pairs, 1, Len(pairs) - 1)))

\* sort((a, b) => new Date(a.date+'T'+a.time) - new Date(b.date+'T'+b.time)),
\* stable as Array.prototype.sort is
SortByDateTime(s) ==
    LET sorted == SortPairs([i \in 1..Len(s) |-> <<LocalDateTime(s[i]), s[i]>>])
    IN  [i \in 1..Len(s) |-> sorted[i][2]]

Ids(s) == [i \in 1..Len(s) |-> s[i].id]

-----------------------------------------------------------------------------
(* Schedule: what each render function writes into the document *)

totalCells == 42

RECURSIVE CalendarLoopShort(_, _, _, _, _)
\* the loop with the days of the month counted one short
CalendarLoopShort(i, dayCounter, nextMonthCounter, cells, g) ==
    IF ~(i < totalCells) THEN cells
    ELSE IF i < g.startingDayOfWeek
    THEN CalendarLoopShort(i + 1, dayCounter, nextMonthCounter,
             Append(cells,
                 [otherMonth |-> TRUE, today |-> FALSE,
                  day |-> g.prevMonthLastDay - g.startingDayOfWeek + i + 1,
                  events |-> <<>>, more |-> 0]), g)
    ELSE IF dayCounter < g.daysInMonth
    THEN LET cellDate == IsoDate(g.year, g.month, dayCounter)
             dayEvents ==
                 SelectSeq(g.calendarEvents, LAMBDA evt :
                     evt.date = cellDate
                     /\ includes(g.activeFilters, evt.category))
         IN  CalendarLoopShort(i + 1, dayCounter + 1, nextMonthCounter,
                 Append(cells,
                     [otherMonth |-> FALSE,
                      today |-> (dayCounter = g.today.d
                                 /\ g.month = g.today.m
                                 /\ g.year = g.today.y),
                      day |-> dayCounter,
                      events |-> Ids(slice(dayEvents, 3)),
                      more |-> IF Len(dayEvents) > 3
                               THEN Len(dayEvents) - 3 ELSE 0]), g)
    ELSE CalendarLoopShort(i + 1, dayCounter, nextMonthCounter + 1,
             Append(cells,
                 [otherMonth |-> TRUE, today |-> FALSE,
                  day |-> nextMonthCounter,
                  events |-> <<>>, more |-> 0]), g)

RECURSIVE CalendarLoop(_, _, _, _, _)
\* the for loop of renderCalendar: cell i of totalCells with the loop's
\* counters; g holds the values computed before the loop
CalendarLoop(i, dayCounter, nextMonthCounter, cells, g) ==
    IF ~(i < totalCells) THEN cells
    ELSE IF i < g.startingDayOfWeek
    THEN CalendarLoop(i + 1, dayCounter, nextMonthCounter,
             Append(cells,
                 [otherMonth |-> TRUE, today |-> FALSE,
                  day |-> g.prevMonthLastDay - g.startingDayOfWeek + i + 1,
                  events |-> <<>>, more |-> 0]), g)
    ELSE IF dayCounter <= g.daysInMonth
    THEN LET cellDate == IsoDate(g.year, g.month, dayCounter)
             dayEvents ==
                 SelectSeq(g.calendarEvents, LAMBDA evt :
                     evt.date = cellDate
                     /\ includes(g.activeFilters, evt.category))
         IN  CalendarLoop(i + 1, dayCounter + 1, nextMonthCounter,
                 Append(cells,
                     [otherMonth |-> FALSE,
                      today |-> (dayCounter = g.today.d
                                 /\ g.month = g.today.m
                                 /\ g.year = g.today.y),
                      day |-> dayCounter,
                      events |-> Ids(slice(dayEvents, 3)),
                      more |-> IF Len(dayEvents) > 3
                               THEN Len(dayEvents) - 3 ELSE 0]), g)
    ELSE CalendarLoop(i + 1, dayCounter, nextMonthCounter + 1,
             Append(cells,
                 [otherMonth |-> TRUE, today |-> FALSE,
                  day |-> nextMonthCounter,
                  events |-> <<>>, more |-> 0]), g)

\* calendarBody.innerHTML after renderCalendar; dd is the state bag, e the
\* clock
CalendarCells(dd, e) ==
    LET year == dd.currentDate.y
        month == dd.currentDate.m
        firstDay == NewDate(year, month, 1)
        lastDay == NewDate(year, month + 1, 0)
        startingDayOfWeek ==
            IF getDay(firstDay) = 0 THEN 6 ELSE getDay(firstDay) - 1
    IN  CalendarLoop(0, 1, 1, <<>>,
            [year |-> year, month |-> month,
             daysInMonth |-> lastDay.d,
             startingDayOfWeek |-> startingDayOfWeek,
             prevMonthLastDay |-> NewDate(year, month, 0).d,
             calendarEvents |-> dd.calendarEvents,
             activeFilters |-> dd.activeFilters,
             today |-> e.today])

\* miniCalendarBody.innerHTML after renderMiniCalendar
MiniCalendar(dd, e) ==
    LET year == dd.currentDate.y
        month == dd.currentDate.m
        firstDay == NewDate(year, month, 1)
        daysInMonth == NewDate(year, month + 1, 0).d
        startDay == IF getDay(firstDay) = 0 THEN 6 ELSE getDay(firstDay) - 1
    IN  [i \in 1..startDay |->
            [empty |-> TRUE, day |-> 0, today |-> FALSE, hasEvents |-> FALSE]]
        \o
        [day \in 1..daysInMonth |->
            [empty |-> FALSE, day |-> day,
             today |-> (day = e.today.d /\ month = e.today.m
                        /\ year = e.today.y),
             hasEvents |-> \E k \in 1..Len(dd.calendarEvents) :
                 dd.calendarEvents[k].date = IsoDate(year, month, day)]]

\* upcomingEventsList.innerHTML after renderUpcomingEvents
UpcomingEvents(dd, e) ==
    LET today == NowInstant(e)
    IN  slice(SortByDateTime(
                  SelectSeq(dd.calendarEvents, LAMBDA evt :
                      ParseIsoDateUTC(evt.date) >= today
                      /\ includes(dd.activeFilters, evt.category))), 10)

\* todaysEventsList.innerHTML after renderTodaysEvents
TodaysEvents(dd, e) ==
    SelectSeq(dd.calendarEvents, LAMBDA evt :
        evt.date = IsoDate(e.today.y, e.today.m, e.today.d))

\* the full list without the comparison to today
UpcomingEventsFullUnfiltered(dd, e) ==
    slice(SortByDateTime(dd.calendarEvents), 20)

\* upcomingEventsFullList.innerHTML after renderUpcomingEventsFull
UpcomingEventsFull(dd, e) ==
    LET today == LocalMidnight(e)
    IN  slice(SortByDateTime(
                  SelectSeq(dd.calendarEvents, LAMBDA evt :
                      ParseIsoDateUTC(evt.date) >= today)), 20)

\* meetingsListContainer.innerHTML after renderMeetingsList
MeetingsList(dd) ==
    SelectSeq(dd.calendarEvents, LAMBDA evt :
        evt.category = "meeting" \/ evt.category = "consultation")

\* consultationsListContainer.innerHTML after renderConsultations
Consultations(dd) ==
    SelectSeq(dd.calendarEvents, LAMBDA evt : evt.category = "consultation")

\* the document after renderCalendar(), which also renders the mini
\* calendar, the upcoming list and today's list
renderCalendar(d, dd, e) ==
    [d EXCEPT !.calendarTitle = <<dd.currentDate.m, dd.currentDate.y>>,
              !.calendarBody = CalendarCells(dd, e),
              !.miniCalendarBody = MiniCalendar(dd, e),
              !.upcomingEventsList = Ids(UpcomingEvents(dd, e)),
              !.todaysEventsList = Ids(TodaysEvents(dd, e))]

\* the document after updateScheduleStats()
updateScheduleStats(d, dd) ==
    [d EXCEPT !.scheduleMeetingsCount = Len(MeetingsList(dd)),
              !.scheduleEventsCount = Len(dd.calendarEvents)]

\* the state bag and the document after switchScheduleView(viewName)
switchScheduleViewDom(d, dd, e, viewName) ==
    LET shown == [d EXCEPT
            !.scheduleSidebarActive =
                IF viewName \in ScheduleViews THEN viewName ELSE "",
            !.scheduleViewDisplay =
                [v \in ScheduleViews |->
                    IF v = viewName THEN "block" ELSE "none"]]
    IN  IF viewName = "calendar" THEN renderCalendar(shown, dd, e)
        ELSE IF viewName = "meetings"
        THEN [shown EXCEPT !.meetingsListContainer = Ids(MeetingsList(dd))]
        ELSE IF viewName = "upcoming"
        THEN [shown EXCEPT
                 !.upcomingEventsFullList = Ids(UpcomingEventsFull(dd, e))]
        ELSE IF viewName = "consultations"
        THEN [shown EXCEPT
                 !.consultationsListContainer = Ids(Consultations(dd))]
        ELSE shown

-----------------------------------------------------------------------------
(* Chat: data and what each render function writes into the document *)

Participant(id, type, lastMessage, lastMessageTime, unread) ==
    [id |-> id, type |-> type, lastMessage |-> lastMessage,
     lastMessageTime |-> lastMessageTime, unread |-> unread]

\* FallbackData.chatParticipants; lastMessageTime is Date.now() - offset at
\* script load, in milliseconds relative to the load (name, avatar and
\* online are display text only; lastMessage is abbreviated)
FallbackChatParticipants == <<
    Participant("p1", "patient", "Thank you", -1800000, 2),
    Participant("p2", "patient", "See you", -86400000, 0),
    Participant("p3", "patient", "Helping", -3600000, 1),
    Participant("pt1", "physio", "Reports ready", -900000, 1),
    Participant("pt2", "physio", "New protocol", -5400000, 3) >>

\* a document served as ../data/messages.json
ServerChatParticipants == <<
    Participant("s1", "patient", "Hello doctor", -600000, 1),
    Participant("p1", "patient", "Thank you", -1200000, 4) >>

Message(id, from, text, time) ==
    [id |-> id, from |-> from, text |-> text, time |-> time]

\* the ids of all participants
ChatIds == {"p1", "p2", "p3", "pt1", "pt2", "s1"}

NoMessages == [id \in ChatIds |-> <<>>]

ServerChatMessages ==
    [NoMessages EXCEPT !["s1"] = <<Message(-600000, "other", "Hello doctor", -600000)>>]

\* DoctorDashboard.chatData: null, the fallback object whose participants
\* array IS FallbackData.chatParticipants, or a parsed server document
NullChatData == [src |-> "null", participants |-> <<>>, messages |-> NoMessages]

FallbackChatData ==
    [src |-> "fallback", participants |-> <<>>, messages |-> NoMessages]

\* DoctorDashboard.chatData.participants, through the alias
Participants(dd, fb) ==
    IF dd.chatData.src = "fallback" THEN fb.chatParticipants
    ELSE dd.chatData.participants

\* participants.find(p => p.id === id): its index, 0 when there is none
FindParticipant(ps, id) ==
    IF \E i \in 1..Len(ps) : ps[i].id = id
    THEN CHOOSE i \in 1..Len(ps) :
             ps[i].id = id /\ \A j \in 1..(i - 1) : ps[j].id # id
    ELSE 0

\* the sort with the comparison turned round: oldest first
SortByRecencyOldestFirst(s) ==
    LET sorted == SortPairs([i \in 1..Len(s) |-> <<s[i].lastMessageTime, s[i]>>])
    IN  [i \in 1..Len(s) |-> sorted[i][2]]

\* sort((a, b) => new Date(b.lastMessageTime) - new Date(a.lastMessageTime)):
\* most recent first, stable
SortByRecency(s) ==
    LET sorted == SortPairs([i \in 1..Len(s) |-> <<-s[i].lastMessageTime, s[i]>>])
    IN  [i \in 1..Len(s) |-> sorted[i][2]]

\* input.value.trim() of the texts the doctor types
trim(text) == IF text \in {"", "  "} THEN "" ELSE IF text = " hi " THEN "hi"
              ELSE text

InputTexts == {"", "  ", " hi "}

ChatFilters == {"all", "patient", "physio"}

\* the participants renderParticipants(filterType) keeps
FilterParticipants(ps, filterType) ==
    IF filterType = "patient"
    THEN SelectSeq(ps, LAMBDA p : p.type = "patient")
    ELSE IF filterType = "physio"
    THEN SelectSeq(ps, LAMBDA p : p.type = "physio")
    ELSE ps

\* an item that shows the badge for any count, zero too
ParticipantItemBadgeAlways(p, activeChat) ==
    [id |-> p.id, active |-> (activeChat = p.id),
     preview |-> p.lastMessage, unreadBadge |-> (p.unread >= 0),
     unread |-> p.unread]

\* one .participant-item as rendered
ParticipantItem(p, activeChat) ==
    [id |-> p.id, active |-> (activeChat = p.id),
     preview |-> p.lastMessage, unreadBadge |-> (p.unread > 0),
     unread |-> p.unread]

\* the state bag and the document after renderParticipants(filterType);
\* c is the pair [dd, d] of state bag and document
renderParticipants(c, fb, filterType) ==
    IF c.dd.chatData.src = "null" THEN c
    ELSE LET participants ==
                 FilterParticipants(Participants(c.dd, fb), filterType)
             sorted == SortByRecency(participants)
         IN  IF Len(participants) = 0
             THEN [c EXCEPT !.d.participantsList =
                      [kind |-> "empty", items |-> <<>>]]
             ELSE [dd |-> [c.dd EXCEPT !.currentFilter = filterType],
                   d |-> [c.d EXCEPT !.participantsList =
                      [kind |-> "items",
                       items |-> [i \in 1..Len(sorted) |->
                           ParticipantItem(sorted[i], c.dd.activeChat)]]]]

\* chatMessages.innerHTML after loadMessages(participantId)
loadMessages(dd, participantId) ==
    LET messages == dd.chatData.messages[participantId]
    IN  IF Len(messages) = 0 THEN [kind |-> "empty", items |-> <<>>]
        ELSE [kind |-> "messages", items |-> messages]

\* the document after resetChatToDefaultState()
resetChatToDefaultState(d) ==
    [d EXCEPT !.chatHeader = "placeholder",
              !.chatMessages = [kind |-> "blank", items |-> <<>>],
              !.messageInput = "",
              !.participantsList.items =
                  [i \in 1..Len(d.participantsList.items) |->
                      [d.participantsList.items[i] EXCEPT !.active = FALSE]]]

-----------------------------------------------------------------------------
(* The page after DOMContentLoaded of a doctor's session *)

NULL == "null"

\* localStorage item 'neurotrack_user': json tells what JSON.parse makes of
\* the text ("absent": no item, so '{}' is parsed; "malformed": a
\* SyntaxError; "null": the value null; "object": an object with the role
\* and the profile given); profile is "stored" for a profile object with
\* fields, "empty" for {} and "none" for no profile field
StoredUser(json, role, profile) ==
    [json |-> json, role |-> role, profile |-> profile]

\* the stored user of an authenticated doctor
DoctorUser == StoredUser("object", "doctor", "stored")

\* what the item may hold when a page reads it
StoredItems ==
    {StoredUser("absent", "", "none"), StoredUser("malformed", "", "none"),
     StoredUser("null", "", "none"), StoredUser("object", "", "none"),
     StoredUser("object", "patient", "stored"),
     StoredUser("object", "doctor", "none"),
     StoredUser("object", "doctor", "empty"), DoctorUser}

\* JSON.parse(localStorage.getItem('neurotrack_user') || '{}') throws
ParseThrows(item) == item.json = "malformed"

\* the profile page as loadProfilePage renders it from the item: nothing
\* when JSON.parse throws (the statement is outside the function's try),
\* FallbackData.userProfile when the parsed value is null or has no
\* profile or an empty one, the stored profile otherwise
loadProfilePage(shown, item) ==
    IF ParseThrows(item) THEN shown
    ELSE IF item.json # "object" \/ item.profile \in {"none", "empty"}
         THEN "fallback"
         ELSE "stored"

\* the profile modal as loadModalProfileData renders it from the item:
\* nothing when JSON.parse throws, FallbackData.userProfile when the parsed
\* value is null or has no profile, the stored profile otherwise (an empty
\* profile object is kept and shows the defaults of each field)
loadModalProfileData(shown, item) ==
    IF ParseThrows(item) THEN shown
    ELSE IF item.json # "object" \/ item.profile = "none"
         THEN "fallback"
         ELSE IF item.profile = "empty" THEN "defaults" ELSE "stored"

Date(y, m, d) == [y |-> y, m |-> m, d |-> d]

\* header links; which link texts contain the section name
NavLinks == SectionNames
NavLinksFor(section) == {l \in NavLinks : l = section}

Roles == {"patient", "doctor", "physio"}

\* the inputs of each .role-fields group, #patientFields, #doctorFields and
\* #physioFields, as handleRegister reads them
RoleInputs ==
    [patient |-> {"dateOfBirth", "medicalRecordNumber"},
     doctor |-> {"licenseId", "specialization", "hospitalAffiliation"},
     physio |-> {"certificationLevel", "assignedRegion"}]

AllRoleInputs == UNION {RoleInputs[r] : r \in Roles}

ErrorIds == {"emailError", "passwordError", "roleError"}

NoErrors == [id \in ErrorIds |-> ""]

\* the switch without the first loop: the other groups stay as they are
switchRoleFieldsKeep(groups, newRole) ==
    IF newRole \in Roles
    THEN [groups EXCEPT ![newRole] =
             [active |-> TRUE, display |-> "grid",
              required |-> [i \in RoleInputs[newRole] |-> TRUE],
              disabled |-> [i \in RoleInputs[newRole] |-> FALSE]]]
    ELSE groups

\* the role-specific groups after switchRole(newRole): every group is
\* hidden and its inputs disabled and not required, then the group
\* #<newRole>Fields, if there is one, is shown and its inputs enabled and
\* required
switchRoleFields(groups, newRole) ==
    LET hidden == [r \in Roles |->
                      [active |-> FALSE, display |-> "none",
                       required |-> [i \in RoleInputs[r] |-> FALSE],
                       disabled |-> [i \in RoleInputs[r] |-> TRUE]]]
    IN  IF newRole \in Roles
        THEN [hidden EXCEPT ![newRole] =
                 [active |-> TRUE, display |-> "grid",
                  required |-> [i \in RoleInputs[newRole] |-> TRUE],
                  disabled |-> [i \in RoleInputs[newRole] |-> FALSE]]]
        ELSE hidden

\* the markup of the groups before any script has run
StaticRoleFields ==
    [r \in Roles |->
        [active |-> FALSE, display |-> "",
         required |-> [i \in RoleInputs[r] |-> FALSE],
         disabled |-> [i \in RoleInputs[r] |-> FALSE]]]

\* no registration request in flight
NoRequest == [sent |-> FALSE, role |-> ""]

\* the registration form as the page shows it first: nothing typed, no
\* role chosen in #registerRole, no error shown
RegisterInit ==
    [name |-> "", email |-> "", password |-> "", confirmPassword |-> "",
     role |-> "", termsAccepted |-> FALSE,
     values |-> [i \in AllRoleInputs |-> ""],
     errors |-> {}, loading |-> FALSE, request |-> NoRequest,
     location |-> "register"]

\* the login and registration pages after their DOMContentLoaded handler,
\* which ends with switchRole(roleSelect.value || 'patient')
AuthInit ==
    [loginEmail |-> "", loginPassword |-> 0, loginRole |-> "",
     errors |-> NoErrors, loading |-> FALSE, request |-> "none",
     location |-> "login",
     roleFields |-> switchRoleFields(StaticRoleFields, "patient"),
     register |-> RegisterInit]

\* the state bag as the script creates it
StateBag(today) ==
    [calendarEvents |-> <<>>,
     chatData |-> NullChatData,
     patientsData |-> NULL,
     filesData |-> NULL,
     activeChat |-> NULL,
     activeSection |-> "dashboard",
     activeScheduleView |-> "calendar",
     currentFilter |-> "all",
     currentDate |-> today,
     activeFilters |-> Categories]

\* the document once both load handlers have run for a stored doctor;
\* handlersRun tells which DOMContentLoaded handlers have run, app.js's and
\* doctor-dashboard.js's
LoadedDocument ==
    [sectionDisplay |->
         [s \in SectionNames |-> IF s = "dashboard" THEN "block" ELSE "none"],
     navActive |-> NavLinksFor("dashboard"),
     scheduleSidebarActive |-> "",
     scheduleViewDisplay |-> [v \in ScheduleViews |-> ""],
     scheduleMeetingsCount |-> 0,
     scheduleEventsCount |-> 0,
     calendarTitle |-> <<>>,
     calendarBody |-> <<>>,
     miniCalendarBody |-> <<>>,
     upcomingEventsList |-> <<>>,
     todaysEventsList |-> <<>>,
     upcomingEventsFullList |-> <<>>,
     meetingsListContainer |-> <<>>,
     consultationsListContainer |-> <<>>,
     participantsList |-> [kind |-> "static", items |-> <<>>],
     chatHeader |-> "static",
     chatName |-> "",
     chatMessages |-> [kind |-> "blank", items |-> <<>>],
     messageInput |-> "",
     chatSearchListeners |-> 0,
     profileBtnListeners |-> 0,
     chartFilterListeners |-> 0,
     chatFilterBtnActive |-> "static",
     profilePage |-> "static",
     profileModal |-> [active |-> FALSE, data |-> "static"],
     userName |-> "stored",
     notificationList |-> "static",
     location |-> "doctor-dashboard",
     handlersRun |-> {"app", "dashboard"},
     dashboardStats |-> "static",
     alertShown |-> FALSE]

InitPage(todays, hours, zones) ==
    /\ env \in [today : todays, hour : hours, zone : zones, clock : {0}]
    /\ DoctorDashboard = StateBag(env.today)
    /\ FallbackData = [chatParticipants |-> FallbackChatParticipants]
    /\ dom = LoadedDocument
    \* initializeDashboard has been called by app.js's own load handler, by
    \* the dashboard's load handler and by showSection('dashboard');
    \* loadNotifications by the dashboard's load handler
    /\ pending = [dashboard |-> 3, calendar |-> 0, chat |-> 0,
                  notifications |-> 1]
    /\ localStorage = DoctorUser
    /\ auth = AuthInit
    /\ toggles = [c \in CategorySet |-> 0]
    /\ lastOp = [op |-> "load", arg |-> ""]

-----------------------------------------------------------------------------
(* Section controller *)

UnknownSection == "settings"

\* a fetch that is not issued while another for the same resource is in
\* flight
fetchUnlessInFlight(inFlight) == IF inFlight > 0 THEN inFlight ELSE inFlight + 1

\* fetch(url) as an initializer calls it: one more request in flight for the
\* resource, whatever is in flight already
fetch(inFlight) == inFlight + 1

\* showSection(section), up to the first await of the initializer it calls
showSection(section) ==
    LET hidden == [s \in SectionNames |-> "none"]
        shown == [s \in SectionNames |->
                     IF s = section THEN "block" ELSE "none"]
        init == section = "dashboard"
                /\ (DoctorDashboard.patientsData = NULL
                    \/ DoctorDashboard.filesData = NULL)
    IN  /\ section = "dashboard" /\ init => pending.dashboard < MaxPending
        /\ section = "schedule" => pending.calendar < MaxPending
        /\ section = "messages" => pending.chat < MaxPending
        /\ dom' = [dom EXCEPT
               !.sectionDisplay = IF section \in SectionNames
                                  THEN shown ELSE hidden,
               !.profilePage =
                   IF section = "profile"
                   THEN loadProfilePage(@, localStorage) ELSE @,
               !.participantsList =
                   IF section = "messages"
                   THEN [kind |-> "loading", items |-> <<>>] ELSE @,
               !.navActive = NavLinksFor(section)]
        /\ DoctorDashboard' = [DoctorDashboard EXCEPT
               !.activeChat = IF section = "messages" THEN NULL ELSE @,
               !.activeSection = section]
        /\ pending' = [pending EXCEPT
               !.dashboard = IF init THEN @ + 1 ELSE @,
               !.calendar = IF section = "schedule" THEN fetch(@) ELSE @,
               !.chat = IF section = "messages" THEN fetch(@) ELSE @]
        /\ lastOp' = [op |-> "showSection", arg |-> section]
        /\ UNCHANGED <<FallbackData, env, localStorage, auth, toggles>>

\* initializeDashboard after its fetch: the cards are filled and
\* setupChartFilters() and setupProfileDropdown() add a click listener to
\* each chart filter button and to the profile button, or the failure is
\* reported with alert()
initializeDashboardDone(ok) ==
    /\ pending.dashboard > 0
    /\ ok => dom.profileBtnListeners < MaxListeners
    /\ pending' = [pending EXCEPT !.dashboard = @ - 1]
    /\ dom' = [dom EXCEPT !.dashboardStats = IF ok THEN "loaded" ELSE @,
                          !.chartFilterListeners = IF ok THEN @ + 1 ELSE @,
                          !.profileBtnListeners = IF ok THEN @ + 1 ELSE @,
                          !.alertShown = IF ok THEN @ ELSE TRUE]
    /\ lastOp' = [op |-> "initializeDashboardDone",
                  arg |-> IF ok THEN "ok" ELSE "failed"]
    /\ UNCHANGED <<DoctorDashboard, FallbackData, env, localStorage, auth,
                   toggles>>

\* what the fetch of ../data/notifications.json may come to: the fetch
\* rejects, the body is no JSON, the body is null, the document has no
\* notifications field, a notifications value that is no array, an empty
\* array, or notifications
NotificationResponses ==
    {"reject", "invalid-json", "null-body", "no-notifications", "not-array",
     "empty-notifications", "notifications"}

\* notificationList.innerHTML once loadNotifications has settled: the
\* items, or the empty state from renderNotifications([]), which the catch
\* reaches for every error of the two then-callbacks too
LoadedNotifications(response) ==
    IF response = "notifications" THEN "items" ELSE "empty"

\* loadNotifications from the completion of its fetch to its end
loadNotificationsDone(response) ==
    /\ pending.notifications > 0
    /\ pending' = [pending EXCEPT !.notifications = @ - 1]
    /\ dom' = [dom EXCEPT !.notificationList = LoadedNotifications(response)]
    /\ lastOp' = [op |-> "loadNotificationsDone", arg |-> response]
    /\ UNCHANGED <<DoctorDashboard, FallbackData, env, localStorage, auth,
                   toggles>>

-----------------------------------------------------------------------------
(* Schedule *)

\* what the fetch of ../data/calendar-events.json may come to: the fetch
\* rejects, the body is no JSON, the body is null, the document has no
\* events field, an empty events array, or the events above
CalendarResponses ==
    {"reject", "invalid-json", "null-body", "no-events", "empty-events",
     "events"}

\* two more: a response whose status is not 200 and whose body is a JSON
\* document with the events above, and a document whose events field is
\* the string "x"
OddCalendarResponses == {"not-ok-events", "events-string"}

\* data.events is an array (or absent); a string has a length and no filter
EventsIsArray(response) == response # "events-string"

\* the response makes the try block of initializeScheduleView throw
CalendarFetchThrows(response) ==
    response \in {"reject", "invalid-json", "null-body"}

\* data.events || []
CalendarFetchEvents(response) ==
    IF response \in {"events", "not-ok-events"} THEN ServerCalendarEvents
    ELSE IF response = "events-string" THEN <<"x">>
    ELSE <<>>

\* the loaded events without the check for an empty array
LoadedCalendarEventsUnchecked(response) ==
    IF CalendarFetchThrows(response) THEN FallbackCalendarEvents
    ELSE CalendarFetchEvents(response)

\* DoctorDashboard.calendarEvents after the try/catch of initializeScheduleView
LoadedCalendarEvents(response) ==
    IF CalendarFetchThrows(response) THEN FallbackCalendarEvents
    ELSE IF Len(CalendarFetchEvents(response)) = 0
         THEN FallbackCalendarEvents
         ELSE CalendarFetchEvents(response)

\* initializeScheduleView from the completion of its fetch to its end
initializeScheduleViewDone(response) ==
    /\ pending.calendar > 0
    /\ pending' = [pending EXCEPT !.calendar = @ - 1]
    /\ IF EventsIsArray(response)
       THEN LET dd == [DoctorDashboard EXCEPT
                          !.calendarEvents = LoadedCalendarEvents(response),
                          !.activeScheduleView = "calendar"]
            IN  /\ DoctorDashboard' = dd
                /\ dom' = switchScheduleViewDom(updateScheduleStats(dom, dd),
                                                dd, env, "calendar")
       ELSE \* events.filter is not a function: updateScheduleStats throws
            /\ DoctorDashboard' = [DoctorDashboard EXCEPT
                   !.calendarEvents = LoadedCalendarEvents(response)]
            /\ UNCHANGED dom
    /\ lastOp' = [op |-> "initializeScheduleViewDone", arg |-> response]
    /\ UNCHANGED <<FallbackData, env, localStorage, auth, toggles>>

\* a switch that loads the events anew
switchScheduleViewReload(viewName) ==
    /\ pending.calendar < MaxPending
    /\ LET dd == [DoctorDashboard EXCEPT !.activeScheduleView = viewName]
       IN  /\ DoctorDashboard' = dd
           /\ dom' = switchScheduleViewDom(dom, dd, env, viewName)
    /\ pending' = [pending EXCEPT !.calendar = fetch(@)]
    /\ lastOp' = [op |-> "switchScheduleView", arg |-> viewName]
    /\ UNCHANGED <<FallbackData, env, localStorage, auth, toggles>>

switchScheduleView(viewName) ==
    /\ LET dd == [DoctorDashboard EXCEPT !.activeScheduleView = viewName]
       IN  /\ DoctorDashboard' = dd
           /\ dom' = switchScheduleViewDom(dom, dd, env, viewName)
    /\ lastOp' = [op |-> "switchScheduleView", arg |-> viewName]
    /\ UNCHANGED <<FallbackData, env, pending, localStorage, auth, toggles>>

\* currentDate.setMonth(currentDate.getMonth() + delta)
setMonth(date, delta) == NewDate(date.y, date.m + delta, date.d)

InYears(date) == date.y >= 2024 /\ date.y <= 2024 + YearSpan

prevMonth ==
    /\ InYears(setMonth(DoctorDashboard.currentDate, -1))
    /\ LET dd == [DoctorDashboard EXCEPT !.currentDate = setMonth(@, -1)]
       IN  /\ DoctorDashboard' = dd
           /\ dom' = renderCalendar(dom, dd, env)
    /\ lastOp' = [op |-> "prevMonth", arg |-> ""]
    /\ UNCHANGED <<FallbackData, env, pending, localStorage, auth, toggles>>

nextMonth ==
    /\ InYears(setMonth(DoctorDashboard.currentDate, 1))
    /\ LET dd == [DoctorDashboard EXCEPT !.currentDate = setMonth(@, 1)]
       IN  /\ DoctorDashboard' = dd
           /\ dom' = renderCalendar(dom, dd, env)
    /\ lastOp' = [op |-> "nextMonth", arg |-> ""]
    /\ UNCHANGED <<FallbackData, env, pending, localStorage, auth, toggles>>

goToToday ==
    /\ LET dd == [DoctorDashboard EXCEPT !.currentDate = env.today]
       IN  /\ DoctorDashboard' = dd
           /\ dom' = renderCalendar(dom, dd, env)
    /\ lastOp' = [op |-> "goToToday", arg |-> ""]
    /\ UNCHANGED <<FallbackData, env, pending, localStorage, auth, toggles>>

\* the toggle with the found index compared to 0 as JavaScript counts it:
\* the first filter is never removed
toggleFilterFromSecond(activeFilters, category) ==
    LET index == indexOf(activeFilters, category)
    IN  IF index > 1 THEN splice(activeFilters, index)
        ELSE Append(activeFilters, category)

\* DoctorDashboard.activeFilters after filterEvents(category)
toggleFilter(activeFilters, category) ==
    LET index == indexOf(activeFilters, category)
    IN  IF index > 0 THEN splice(activeFilters, index)
        ELSE Append(activeFilters, category)

filterEvents(category) ==
    /\ LET dd == [DoctorDashboard EXCEPT
                     !.activeFilters = toggleFilter(@, category)]
       IN  /\ DoctorDashboard' = dd
           /\ dom' = renderCalendar(dom, dd, env)
    /\ toggles' = [toggles EXCEPT ![category] = (@ + 1) % 2]
    /\ lastOp' = [op |-> "filterEvents", arg |-> category]
    /\ UNCHANGED <<FallbackData, env, pending, localStorage, auth>>

-----------------------------------------------------------------------------
(* Specification of the calendar cursor: the schedule section is opened,  *)
(* the events arrive, and the doctor pages through the months              *)

CursorTodays == {Date(2024, 0, 31), Date(2025, 11, 17), Date(2026, 2, 1)}

InitCalendar == InitPage(CursorTodays, {9}, {7})

NextCalendar ==
    \/ showSection("schedule")
    \/ \E response \in {"reject", "events"} :
           initializeScheduleViewDone(response)
    \/ prevMonth
    \/ nextMonth
    \/ goToToday

SpecCalendar == InitCalendar /\ [][NextCalendar]_vars


-----------------------------------------------------------------------------
(* Specification of the event filters: the schedule section is opened, the *)
(* events arrive or the fetch fails, the doctor toggles categories and     *)
(* looks at the upcoming view; one fetch at a time                         *)

FilterToday == Date(2025, 11, 17)

\* local hour and zone offset: midnight UTC, early morning in Jakarta, late
\* evening in New York
FilterClocks == {<<0, 0>>, <<1, 7>>, <<23, -5>>}

InitFilters ==
    /\ InitPage({FilterToday}, {0, 1, 23}, {0, 7, -5})
    /\ <<env.hour, env.zone>> \in FilterClocks

NextFilters ==
    \/ (pending.calendar = 0 /\ showSection("schedule"))
    \/ \E response \in CalendarResponses :
           initializeScheduleViewDone(response)
    \/ \E category \in CategorySet : filterEvents(category)

SpecFilters == InitFilters /\ [][NextFilters]_vars

-----------------------------------------------------------------------------
(* Specification of the schedule sub-views: the schedule section is opened *)
(* (again while a fetch is pending, too), the events arrive or the fetch   *)
(* fails, the doctor switches between the sub-views and toggles a filter   *)

NextViews ==
    \/ showSection("schedule")
    \/ \E response \in {"reject", "events"} :
           initializeScheduleViewDone(response)
    \/ \E viewName \in ScheduleViews : switchScheduleView(viewName)
    \/ filterEvents("meeting")

SpecViews == InitFilters /\ [][NextViews]_vars


-----------------------------------------------------------------------------
(* Chat *)

\* what the fetch of ../data/messages.json may come to: the fetch rejects,
\* the status is not ok, the body is no JSON, the body is null, the
\* document has no participants field, an empty participants array, or the
\* participants and messages above
ChatResponses ==
    {"reject", "not-ok", "invalid-json", "null-body", "no-participants",
     "empty-participants", "participants"}

\* one more: a document whose participants field is the string "x"
OddChatResponses == {"participants-string"}

\* chatData.participants is an array of participants; the characters of a
\* string have no name, so the item template of renderParticipants throws
ParticipantsIsArray(response) == response # "participants-string"

ServerChatData ==
    [src |-> "server", participants |-> ServerChatParticipants,
     messages |-> ServerChatMessages]

\* DoctorDashboard.chatData after the try/catch of initializeChat
LoadedChatData(response) ==
    IF response \in {"reject", "not-ok", "invalid-json"}
    THEN FallbackChatData
    ELSE IF response \in {"null-body", "no-participants", "empty-participants"}
         THEN FallbackChatData
         ELSE IF response = "participants-string"
         THEN [src |-> "server", participants |-> <<"x">>,
               messages |-> NoMessages]
         ELSE ServerChatData

\* initializeChat from the completion of its fetch to its end
initializeChatDone(response) ==
    /\ pending.chat > 0
    /\ dom.chatSearchListeners < MaxListeners
    /\ pending' = [pending EXCEPT !.chat = @ - 1]
    /\ LET loaded == [DoctorDashboard EXCEPT
                         !.chatData = LoadedChatData(response)]
           rendered == renderParticipants([dd |-> loaded, d |-> dom],
                                          FallbackData, "all")
           searched == [rendered.d EXCEPT !.chatSearchListeners = @ + 1]
       IN  IF ParticipantsIsArray(response)
           THEN /\ DoctorDashboard' = rendered.dd
                /\ dom' = resetChatToDefaultState(searched)
           ELSE \* renderParticipants throws: the list stays as it is
                /\ DoctorDashboard' = loaded
                /\ UNCHANGED dom
    /\ lastOp' = [op |-> "initializeChatDone", arg |-> response]
    /\ UNCHANGED <<FallbackData, env, localStorage, auth, toggles>>

\* the participants array with element i replaced, written through the alias
WriteParticipant(dd, fb, i, p) ==
    IF dd.chatData.src = "fallback"
    THEN [dd |-> dd, fb |-> [fb EXCEPT !.chatParticipants[i] = p]]
    ELSE [dd |-> [dd EXCEPT !.chatData.participants[i] = p], fb |-> fb]

\* the list shows a .participant-item of this id, whose onclick is
\* selectParticipant(id)
Clickable(participantId) ==
    \E k \in 1..Len(dom.participantsList.items) :
        dom.participantsList.items[k].id = participantId

\* selectParticipant(participantId), called by a click on a rendered item
selectParticipant(participantId) ==
    LET selected == [DoctorDashboard EXCEPT !.activeChat = participantId]
        ps == Participants(selected, FallbackData)
        i == FindParticipant(ps, participantId)
    IN  /\ Clickable(participantId)
        /\ lastOp' = [op |-> "selectParticipant", arg |-> participantId]
        /\ UNCHANGED <<env, pending, localStorage, auth, toggles>>
        /\ IF selected.chatData.src = "null" \/ i = 0
           THEN \* chatData is null (a TypeError ends the handler) or no
                \* participant has the id (the handler returns)
                /\ DoctorDashboard' = selected
                /\ UNCHANGED <<FallbackData, dom>>
           ELSE LET w == WriteParticipant(selected, FallbackData, i,
                                          [ps[i] EXCEPT !.unread = 0])
                    marked == [dom EXCEPT
                        !.participantsList.items =
                            [k \in 1..Len(dom.participantsList.items) |->
                                [dom.participantsList.items[k] EXCEPT
                                    !.active =
                                        (dom.participantsList.items[k].id
                                             = participantId)]],
                        !.chatHeader = "active",
                        !.chatName = participantId,
                        !.chatMessages = loadMessages(w.dd, participantId)]
                    rendered == renderParticipants([dd |-> w.dd, d |-> marked],
                                    w.fb, w.dd.currentFilter)
                IN  /\ DoctorDashboard' = rendered.dd
                    /\ FallbackData' = w.fb
                    /\ dom' = rendered.d

\* the doctor types into the composer
typeMessage(text) ==
    /\ dom' = [dom EXCEPT !.messageInput = text]
    /\ lastOp' = [op |-> "typeMessage", arg |-> text]
    /\ UNCHANGED <<DoctorDashboard, FallbackData, env, pending, localStorage,
                   auth, toggles>>

\* messages the doctor has sent that the message map holds
SentCount(dd) ==
    LET Count(id) == Cardinality({k \in 1..Len(dd.chatData.messages[id]) :
                                     dd.chatData.messages[id][k].from = "me"})
        RECURSIVE Sum(_)
        Sum(ids) == IF ids = {} THEN 0
                    ELSE LET id == CHOOSE x \in ids : TRUE
                         IN  Count(id) + Sum(ids \ {id})
    IN  Sum(ChatIds)

\* sendMessage(); idTime, time and lastTime are the clock as read by
\* Date.now() for the id, by new Date() for the message and by new Date()
\* for the participant
sendMessageAt(idTime, time, lastTime) ==
    LET activeChat == DoctorDashboard.activeChat
        text == trim(dom.messageInput)
    IN  /\ lastOp' = [op |-> "sendMessage", arg |-> ""]
        /\ UNCHANGED <<pending, localStorage, auth, toggles>>
        /\ IF activeChat = NULL \/ text = ""
              \/ DoctorDashboard.chatData.src = "null"
           THEN UNCHANGED <<DoctorDashboard, FallbackData, dom, env>>
           ELSE LET pushed == [DoctorDashboard EXCEPT
                        !.chatData.messages[activeChat] =
                            Append(@, Message(idTime, "me", text, time))]
                    ps == Participants(pushed, FallbackData)
                    i == FindParticipant(ps, activeChat)
                    w == IF i = 0 THEN [dd |-> pushed, fb |-> FallbackData]
                         ELSE WriteParticipant(pushed, FallbackData, i,
                                  [ps[i] EXCEPT !.lastMessage = text,
                                                !.lastMessageTime = lastTime])
                    cleared == [dom EXCEPT
                        !.messageInput = "",
                        !.chatMessages = loadMessages(w.dd, activeChat)]
                    rendered == renderParticipants([dd |-> w.dd, d |-> cleared],
                                    w.fb, w.dd.currentFilter)
                IN  /\ SentCount(DoctorDashboard) < MaxSent
                    /\ DoctorDashboard' = rendered.dd
                    /\ FallbackData' = w.fb
                    /\ dom' = rendered.d
                    /\ env' = [env EXCEPT !.clock = lastTime]

sendMessage ==
    \E idTime \in env.clock..MaxClock :
        \E time \in idTime..MaxClock :
            \E lastTime \in time..MaxClock :
                sendMessageAt(idTime, time, lastTime)

filterChatParticipants(type) ==
    /\ LET rendered == renderParticipants([dd |-> DoctorDashboard, d |-> dom],
                                          FallbackData, type)
       IN  /\ DoctorDashboard' = rendered.dd
           /\ dom' = [rendered.d EXCEPT !.chatFilterBtnActive = type]
    /\ lastOp' = [op |-> "filterChatParticipants", arg |-> type]
    /\ UNCHANGED <<FallbackData, env, pending, localStorage, auth, toggles>>

-----------------------------------------------------------------------------
(* Specification of the chat selection: the messages section is opened,    *)
(* the chat data arrive or the fetch fails, the doctor selects             *)
(* participants and filters the list                                       *)

InitChat == InitPage({FilterToday}, {9}, {7})

NextSelect ==
    \/ showSection("messages")
    \/ \E response \in {"reject", "empty-participants", "participants"} :
           initializeChatDone(response)
    \/ \E participantId \in ChatIds : selectParticipant(participantId)
    \/ \E type \in ChatFilters : filterChatParticipants(type)

SpecSelect == InitChat /\ [][NextSelect]_vars

-----------------------------------------------------------------------------
(* Specification of the chat composer: the messages section is opened, the *)
(* chat data arrive or the fetch fails, the doctor selects a participant,  *)
(* types and sends                                                         *)

NextSend ==
    \/ showSection("messages")
    \/ \E response \in {"reject", "participants"} :
           initializeChatDone(response)
    \/ \E participantId \in {"p1", "pt2"} :
           selectParticipant(participantId)
    \/ \E text \in InputTexts : typeMessage(text)
    \/ sendMessage

SpecSend == InitChat /\ [][NextSend]_vars


-----------------------------------------------------------------------------
(* Specification of the data fetches: the schedule and the messages        *)
(* sections are opened and their fetches come to every outcome; one fetch  *)
(* of each kind at a time                                                  *)

NextFetch ==
    \/ (pending.calendar = 0 /\ showSection("schedule"))
    \/ (pending.chat = 0 /\ showSection("messages"))
    \/ \E response \in CalendarResponses \cup OddCalendarResponses :
           initializeScheduleViewDone(response)
    \/ \E response \in ChatResponses \cup OddChatResponses :
           initializeChatDone(response)

SpecFetch == InitChat /\ [][NextFetch]_vars

-----------------------------------------------------------------------------
(* Specification of the schedule controls: the schedule section is opened, *)
(* the events arrive or the fetch fails, and the doctor pages through the  *)
(* months from November 2025 to January 2026, toggles the meeting filter   *)
(* and switches between the sub-views; one fetch at a time                 *)

NextControls ==
    \/ (pending.calendar = 0 /\ showSection("schedule"))
    \/ \E response \in {"reject", "events"} :
           initializeScheduleViewDone(response)
    \/ (DoctorDashboard.currentDate.m > 10 /\ prevMonth)
    \/ (DoctorDashboard.currentDate.y = 2025 /\ nextMonth)
    \/ goToToday
    \/ filterEvents("meeting")
    \/ \E viewName \in ScheduleViews : switchScheduleView(viewName)

SpecControls == InitChat /\ [][NextControls]_vars

-----------------------------------------------------------------------------
(* Specification of leaving and returning: the doctor goes to and fro      *)
(* between the messages and the profile section, the chat data arrive or   *)
(* the fetch fails, and the doctor selects participants while the         *)
(* messages section is on show; one fetch at a time                        *)

NextReturn ==
    \/ \E section \in {"messages", "profile"} :
           /\ section = "messages" => pending.chat = 0
           /\ showSection(section)
    \/ \E response \in {"reject", "participants"} :
           initializeChatDone(response)
    \/ \E participantId \in ChatIds :
           /\ DoctorDashboard.activeSection = "messages"
           /\ selectParticipant(participantId)

SpecReturn == InitChat /\ [][NextReturn]_vars

-----------------------------------------------------------------------------
(* Specification of overlapping fetches: the schedule and the messages     *)
(* sections are opened again and again while earlier fetches are pending,  *)
(* and the fetches complete one by one in any order                        *)

NextOverlap ==
    \/ \E section \in {"schedule", "messages"} : showSection(section)
    \/ \E response \in {"reject", "events"} :
           initializeScheduleViewDone(response)
    \/ \E response \in {"reject", "participants"} :
           initializeChatDone(response)

SpecOverlap == InitChat /\ [][NextOverlap]_vars

-----------------------------------------------------------------------------
(* Page load and profile *)

\* the document as served, before any load handler has run: the header
\* shows the markup's texts and no panel has been switched
StaticDocument ==
    [LoadedDocument EXCEPT
        !.sectionDisplay = [s \in SectionNames |-> ""],
        !.navActive = {},
        !.userName = "static",
        !.handlersRun = {}]

\* the doctor dashboard page is opened with any value of the stored item
InitLoad ==
    /\ env = [today |-> FilterToday, hour |-> 9, zone |-> 7, clock |-> 0]
    /\ DoctorDashboard = StateBag(env.today)
    /\ FallbackData = [chatParticipants |-> FallbackChatParticipants]
    /\ dom = StaticDocument
    /\ pending = [dashboard |-> 0, calendar |-> 0, chat |-> 0,
                  notifications |-> 0]
    /\ localStorage \in StoredItems
    /\ auth = AuthInit
    /\ toggles = [c \in CategorySet |-> 0]
    /\ lastOp = [op |-> "open", arg |-> ""]

\* app.js's own load handler: initializeDashboard()
appLoad ==
    /\ dom.location = "doctor-dashboard"
    /\ "app" \notin dom.handlersRun
    /\ dom' = [dom EXCEPT !.handlersRun = @ \cup {"app"}]
    /\ pending' = [pending EXCEPT !.dashboard = @ + 1]
    /\ lastOp' = [op |-> "appLoad", arg |-> ""]
    /\ UNCHANGED <<DoctorDashboard, FallbackData, env, localStorage, auth,
                   toggles>>

\* the test passed for every stored item
IsDoctorAlways(item) == TRUE

\* the test of the load handler on the parsed item: a role, and it is
\* 'doctor'
IsDoctor(item) == item.role # "" /\ item.role = "doctor"

\* the load handler of doctor-dashboard.js: JSON.parse throws on a
\* malformed item and userData.role on the value null, which ends the
\* handler; without a doctor's role the page leaves for the login page;
\* else the header is filled, the notifications and the dashboard are
\* loaded and showSection('dashboard') runs (and starts initializeDashboard
\* once more)
DOMContentLoaded ==
    /\ dom.location = "doctor-dashboard"
    /\ "dashboard" \notin dom.handlersRun
    /\ lastOp' = [op |-> "DOMContentLoaded", arg |-> ""]
    /\ UNCHANGED <<FallbackData, env, localStorage, auth, toggles>>
    /\ IF ParseThrows(localStorage) \/ localStorage.json = "null"
       THEN /\ dom' = [dom EXCEPT !.handlersRun = @ \cup {"dashboard"}]
            /\ UNCHANGED <<DoctorDashboard, pending>>
       ELSE IF ~IsDoctor(localStorage)
       THEN /\ dom' = [dom EXCEPT !.handlersRun = @ \cup {"dashboard"},
                                  !.location = "./login.html"]
            /\ UNCHANGED <<DoctorDashboard, pending>>
       ELSE /\ dom' = [dom EXCEPT
                   !.handlersRun = @ \cup {"dashboard"},
                   !.userName = IF localStorage.profile = "stored"
                                THEN "stored" ELSE "Dr. Dokter",
                   !.sectionDisplay =
                       [s \in SectionNames |->
                           IF s = "dashboard" THEN "block" ELSE "none"],
                   !.navActive = NavLinksFor("dashboard")]
            /\ DoctorDashboard' =
                   [DoctorDashboard EXCEPT !.activeSection = "dashboard"]
            /\ pending' = [pending EXCEPT !.notifications = @ + 1,
                                          !.dashboard = @ + 2]

\* openProfileModal(): the modal is shown, then loadModalProfileData()
openProfileModal ==
    /\ dom' = [dom EXCEPT !.profileModal =
                  [active |-> TRUE,
                   data |-> loadModalProfileData(@.data, localStorage)]]
    /\ lastOp' = [op |-> "openProfileModal", arg |-> ""]
    /\ UNCHANGED <<DoctorDashboard, FallbackData, env, pending, localStorage,
                   auth, toggles>>

closeProfileModal ==
    /\ dom' = [dom EXCEPT !.profileModal.active = FALSE]
    /\ lastOp' = [op |-> "closeProfileModal", arg |-> ""]
    /\ UNCHANGED <<DoctorDashboard, FallbackData, env, pending, localStorage,
                   auth, toggles>>

\* the page is on show and its load handler has run (or has thrown)
PageUp == dom.location = "doctor-dashboard" /\ "dashboard" \in dom.handlersRun

\* Specification of the page load: the page is opened with any stored
\* item, the two load handlers run in either order, and on the page the
\* doctor opens the profile section and the profile modal while the
\* fetches complete
NextLoad ==
    \/ appLoad
    \/ DOMContentLoaded
    \/ \E section \in {"dashboard", "profile"} :
           PageUp /\ showSection(section)
    \/ (PageUp /\ openProfileModal)
    \/ (PageUp /\ closeProfileModal)
    \/ \E ok \in BOOLEAN : initializeDashboardDone(ok)
    \/ \E response \in {"reject", "notifications"} :
           loadNotificationsDone(response)

SpecLoad == InitLoad /\ [][NextLoad]_vars

-----------------------------------------------------------------------------
(* Specification of the section controller: the doctor activates sections  *)
(* by any name, and the fetches of the initializers and of the             *)
(* notifications complete; one calendar fetch and one chat fetch at a time *)

NextSections ==
    \/ \E section \in SectionNames \cup {UnknownSection} :
           /\ section = "schedule" => pending.calendar = 0
           /\ section = "messages" => pending.chat = 0
           /\ showSection(section)
    \/ \E ok \in BOOLEAN : initializeDashboardDone(ok)
    \/ \E response \in {"reject", "notifications"} :
           loadNotificationsDone(response)
    \/ initializeScheduleViewDone("reject")
    \/ \E response \in {"reject", "participants"} :
           initializeChatDone(response)

SpecSections == InitChat /\ [][NextSections]_vars

-----------------------------------------------------------------------------
(* Login and registration forms (mock-auth.js) *)

\* the length check one short
validatePasswordShort(password) == password >= 7

\* a password is modelled by its length
validatePassword(password) == password >= 8

\* identifiers the user types: nothing, blanks, a name
LoginIdentifiers == {"", "  ", "dokter"}
PasswordLengths == {0, 5, 7, 8, 9}

IsBlank(value) == value \in {"", "  "}

\* the user fills in the login form
fillLogin(identifier, password, role) ==
    /\ auth.location = "login"
    /\ auth' = [auth EXCEPT !.loginEmail = identifier,
                            !.loginPassword = password,
                            !.loginRole = role]
    /\ lastOp' = [op |-> "fillLogin", arg |-> role]
    /\ UNCHANGED <<DoctorDashboard, FallbackData, dom, env, pending,
                   localStorage, toggles>>

\* the errors handleLogin shows for the form's values
LoginErrors(identifier, password, role) ==
    [id \in ErrorIds |->
        IF id = "emailError" /\ (identifier = "" \/ IsBlank(identifier))
        THEN "Please enter your username or email"
        ELSE IF id = "passwordError" /\ ~validatePassword(password)
        THEN "Password must be at least 8 characters"
        ELSE IF id = "roleError" /\ role = ""
        THEN "Please select your role"
        ELSE ""]

\* handleLogin up to its await of fetch; the submit button is disabled
\* while a request is in flight
handleLogin ==
    LET errors == LoginErrors(auth.loginEmail, auth.loginPassword,
                              auth.loginRole)
        hasError == errors # NoErrors
    IN  /\ auth.location = "login"
        /\ ~auth.loading
        /\ auth' = IF hasError THEN [auth EXCEPT !.errors = errors]
                   ELSE [auth EXCEPT !.errors = NoErrors,
                                     !.loading = TRUE,
                                     !.request = auth.loginRole]
        /\ lastOp' = [op |-> "handleLogin", arg |-> ""]
        /\ UNCHANGED <<DoctorDashboard, FallbackData, dom, env, pending,
                       localStorage, toggles>>

\* what POST /auth/login may come to: the request fails, the server
\* refuses, or it reports success with a user of some role
LoginResponses == {"error", "refused"} \cup Roles

\* the page each role is sent to after login
dashboards ==
    [patient |-> "/pages/patient-dashboard.html",
     doctor |-> "/pages/docktor-dashboard.html",
     physio |-> "/pages/physio-dashboard.html"]

\* the cross-check left out: any reported role passes
RoleMatchesAlways(userRole, role) == TRUE

\* data.user.role against the role the form was submitted with
RoleMatches(userRole, role) == userRole = role

\* handleLogin from the completion of its fetch to its end
handleLoginDone(response) ==
    /\ auth.request # "none"
    /\ lastOp' = [op |-> "handleLoginDone", arg |-> response]
    /\ UNCHANGED <<DoctorDashboard, FallbackData, dom, env, pending, toggles>>
    /\ IF response \in Roles
       THEN IF ~RoleMatches(response, auth.request)
            THEN /\ auth' = [auth EXCEPT
                        !.errors["roleError"] = "This account is registered as " \o response,
                        !.loading = FALSE, !.request = "none"]
                 /\ UNCHANGED localStorage
            ELSE /\ localStorage' = StoredUser("object", response, "stored")
                 /\ auth' = [auth EXCEPT !.request = "none",
                                         !.location = dashboards[response]]
       ELSE /\ auth' = [auth EXCEPT
                   !.errors["passwordError"] =
                       IF response = "refused" THEN "Login failed"
                       ELSE "Connection error",
                   !.loading = FALSE, !.request = "none"]
            /\ UNCHANGED localStorage

\* switchRole(newRole) on the registration page
switchRole(newRole) ==
    /\ auth' = [auth EXCEPT
           !.roleFields = switchRoleFields(@, newRole),
           !.errors = NoErrors]
    /\ lastOp' = [op |-> "switchRole", arg |-> newRole]
    /\ UNCHANGED <<DoctorDashboard, FallbackData, dom, env, pending,
                   localStorage, toggles>>

-----------------------------------------------------------------------------
(* Registration form (mock-auth.js) *)

\* password.length of the passwords above
Length(text) ==
    IF text = "" THEN 0 ELSE IF text = "1234567" THEN 7 ELSE 8

\* /^[^\s@]+@[^\s@]+\.[^\s@]+$/ on the emails above
validateEmail(email) == email = "ann@b.c"

\* value && value.trim() !== ''
validateRequired(value) == value # "" /\ ~IsBlank(value)

\* the error element of each role-specific input
RoleInputError ==
    [dateOfBirth |-> "dobError", medicalRecordNumber |-> "mrnError",
     licenseId |-> "licenseError", specialization |-> "specializationError",
     hospitalAffiliation |-> "hospitalError",
     certificationLevel |-> "certError", assignedRegion |-> "regionError"]

\* the error elements handleRegister fills for the form r
RegisterErrors(r) ==
    (IF ~validateRequired(r.name) THEN {"nameError"} ELSE {})
    \cup (IF ~validateEmail(r.email) THEN {"registerEmailError"} ELSE {})
    \cup (IF ~validatePassword(Length(r.password))
          THEN {"registerPasswordError"} ELSE {})
    \cup (IF r.password # r.confirmPassword
          THEN {"confirmPasswordError"} ELSE {})
    \cup (IF ~r.termsAccepted THEN {"termsError"} ELSE {})
    \cup (IF r.role \in Roles
          THEN {RoleInputError[i] : i \in {j \in RoleInputs[r.role] :
                                              ~validateRequired(r.values[j])}}
          ELSE {})

\* the common fields as a user may fill them: all valid, or all valid but
\* a blank name, an email without a domain, a password of 7 characters, a
\* confirmation that differs, or the terms not accepted
CommonFields ==
    LET valid == [name |-> "Ann", email |-> "ann@b.c",
                  password |-> "12345678", confirmPassword |-> "12345678",
                  termsAccepted |-> TRUE]
    IN  {valid, [valid EXCEPT !.name = "  "], [valid EXCEPT !.email = "ann@"],
         [valid EXCEPT !.password = "1234567",
                       !.confirmPassword = "1234567"],
         [valid EXCEPT !.confirmPassword = "12345679"],
         [valid EXCEPT !.termsAccepted = FALSE]}

\* the role-specific inputs the user can type into
EnabledInputs(groups) ==
    {i \in AllRoleInputs :
        \E r \in Roles : i \in RoleInputs[r] /\ ~groups[r].disabled[i]}

\* the user fills the form: the common fields, and every enabled
\* role-specific input but the one left blank (if any)
fillRegister(common, blank) ==
    /\ auth.register.location = "register"
    /\ auth' = [auth EXCEPT !.register =
           [@ EXCEPT !.name = common.name, !.email = common.email,
                     !.password = common.password,
                     !.confirmPassword = common.confirmPassword,
                     !.termsAccepted = common.termsAccepted,
                     !.values = [i \in AllRoleInputs |->
                         IF i \in EnabledInputs(auth.roleFields)
                         THEN (IF i = blank THEN "" ELSE "v")
                         ELSE @[i]]]]
    /\ lastOp' = [op |-> "fillRegister", arg |-> ""]
    /\ UNCHANGED <<DoctorDashboard, FallbackData, dom, env, pending,
                   localStorage, toggles>>

\* the change listener of #registerRole: switchRole(selectedRole) when a
\* role is selected, nothing more when the empty option is
selectRegisterRole(selectedRole) ==
    /\ auth.register.location = "register"
    /\ auth' = IF selectedRole # ""
               THEN [auth EXCEPT
                        !.register.role = selectedRole,
                        !.register.errors = {},
                        !.errors = NoErrors,
                        !.roleFields = switchRoleFields(@, selectedRole)]
               ELSE [auth EXCEPT !.register.role = selectedRole]
    /\ lastOp' = [op |-> "selectRegisterRole", arg |-> selectedRole]
    /\ UNCHANGED <<DoctorDashboard, FallbackData, dom, env, pending,
                   localStorage, toggles>>

\* handleRegister up to its await of fetch; the submit button is disabled
\* while a request is in flight
handleRegister ==
    LET r == auth.register
        errors == RegisterErrors(r)
    IN  /\ r.location = "register"
        /\ ~r.loading
        /\ auth' = [auth EXCEPT !.errors = NoErrors, !.register =
               IF errors # {} THEN [r EXCEPT !.errors = errors]
               ELSE [r EXCEPT !.errors = {}, !.loading = TRUE,
                              !.request = [sent |-> TRUE, role |-> r.role]]]
        /\ lastOp' = [op |-> "handleRegister", arg |-> ""]
        /\ UNCHANGED <<DoctorDashboard, FallbackData, dom, env, pending,
                       localStorage, toggles>>

\* what POST /auth/register may come to
RegisterResponses == {"error", "refused", "success"}

\* handleRegister from the completion of its fetch to its end
handleRegisterDone(response) ==
    /\ auth.register.request.sent
    /\ auth' = [auth EXCEPT !.register =
           IF response = "success"
           THEN [@ EXCEPT !.location = "./login.html", !.loading = FALSE,
                          !.request = NoRequest]
           ELSE [@ EXCEPT !.errors = {"registerEmailError"},
                          !.loading = FALSE, !.request = NoRequest]]
    /\ lastOp' = [op |-> "handleRegisterDone", arg |-> response]
    /\ UNCHANGED <<DoctorDashboard, FallbackData, dom, env, pending,
                   localStorage, toggles>>

NextRegister ==
    \/ \E common \in CommonFields :
           \E blank \in EnabledInputs(auth.roleFields) \cup {""} :
               fillRegister(common, blank)
    \/ \E selectedRole \in Roles \cup {""} :
           \* the role is chosen before the role's inputs are typed
           /\ \A i \in AllRoleInputs : auth.register.values[i] = ""
           /\ selectRegisterRole(selectedRole)
    \/ handleRegister
    \/ \E response \in RegisterResponses : handleRegisterDone(response)

SpecRegister == InitChat /\ [][NextRegister]_vars

NextAuth ==
    \/ \E identifier \in LoginIdentifiers, password \in PasswordLengths,
          role \in Roles \cup {""} : fillLogin(identifier, password, role)
    \/ handleLogin
    \/ \E response \in LoginResponses : handleLoginDone(response)
    \/ \E newRole \in Roles : switchRole(newRole)

SpecAuth == InitChat /\ [][NextAuth]_vars


-----------------------------------------------------------------------------
(* Properties *)

CurrentMonthCells(cells) == {i \in 1..Len(cells) : ~cells[i].otherMonth}

\* C1: whenever the calendar grid has been rendered it has exactly 42
\* cells, and the cells of the displayed month (those not marked
\* other-month) are as many as the month has days, numbered 1, 2, ... in
\* order
C1_GridOf42Cells ==
    dom.calendarBody # <<>> =>
        LET cells == dom.calendarBody
            days == MonthLength(DoctorDashboard.currentDate.y,
                                DoctorDashboard.currentDate.m)
            current == CurrentMonthCells(cells)
        IN  /\ Len(cells) = 42
            /\ Cardinality(current) = days
            /\ {cells[i].day : i \in current} = 1..days
            /\ \A i, j \in current : i < j => cells[i].day < cells[j].day

\* a rendered month of 31 days that starts on a Sunday: its last day is in
\* cell 37 of the grid (December 2024)
C1_Witness ==
    /\ Len(dom.calendarBody) = 42
    /\ dom.calendarBody[6].otherMonth
    /\ ~dom.calendarBody[7].otherMonth
    /\ dom.calendarBody[37].day = 31
    /\ ~dom.calendarBody[37].otherMonth

\* the chat as sendMessage reads and writes it
Thread(dd, id) == dd.chatData.messages[id]

\* C2: a step of sendMessage changes the message map exactly if a chat is
\* active and the trimmed input is not empty; then the active
\* participant's thread grows by one message from "me" with the trimmed
\* text, that participant's lastMessage is the text and its lastMessageTime
\* the time of the message; otherwise no thread and no participant changes
C2_SendMessageEffect ==
    [][lastOp'.op = "sendMessage" =>
        LET a == DoctorDashboard.activeChat
            text == trim(dom.messageInput)
            ps == Participants(DoctorDashboard', FallbackData')
            i == FindParticipant(ps, a)
        IN  IF a # NULL /\ text # ""
            THEN /\ Len(Thread(DoctorDashboard', a))
                        = Len(Thread(DoctorDashboard, a)) + 1
                 /\ SubSeq(Thread(DoctorDashboard', a), 1,
                           Len(Thread(DoctorDashboard, a)))
                        = Thread(DoctorDashboard, a)
                 /\ \A id \in ChatIds \ {a} :
                        Thread(DoctorDashboard', id) = Thread(DoctorDashboard, id)
                 /\ LET m == Thread(DoctorDashboard', a)[Len(Thread(DoctorDashboard', a))]
                    IN  /\ m.from = "me"
                        /\ m.text = text
                        /\ i # 0
                        /\ ps[i].lastMessage = m.text
                        /\ ps[i].lastMessageTime = m.time
            ELSE /\ DoctorDashboard'.chatData = DoctorDashboard.chatData
                 /\ FallbackData' = FallbackData]_vars

\* C3: after selectParticipant(id) for a loaded participant, its unread
\* count is 0 and the list as rendered shows no unread badge on its item
C3_SelectClearsUnread ==
    lastOp.op = "selectParticipant" =>
        LET ps == Participants(DoctorDashboard, FallbackData)
            i == FindParticipant(ps, lastOp.arg)
            items == dom.participantsList.items
        IN  i # 0 =>
                /\ ps[i].unread = 0
                /\ \A k \in 1..Len(items) :
                       items[k].id = lastOp.arg => ~items[k].unreadBadge

\* the physiotherapist with three unread messages has just been selected
\* and its item is in the rendered list, marked active
C3_Witness ==
    /\ lastOp = [op |-> "selectParticipant", arg |-> "pt2"]
    /\ DoctorDashboard.chatData.src = "fallback"
    /\ FallbackData.chatParticipants[5].unread = 0
    /\ \E k \in 1..Len(dom.participantsList.items) :
           /\ dom.participantsList.items[k].id = "pt2"
           /\ dom.participantsList.items[k].active

\* the categories toggled an even number of times
EvenToggled == {c \in CategorySet : toggles[c] = 0}

\* the loaded events of a date whose category was toggled evenly
EvenToggledOn(date) ==
    SelectSeq(DoctorDashboard.calendarEvents, LAMBDA evt :
        evt.date = date /\ evt.category \in EvenToggled)

\* C4: once the calendar is rendered, each day cell of the displayed month
\* shows (up to its three inline places and the "+N more" count) exactly
\* the events of that date whose category has been toggled an even number
\* of times, and the upcoming list exactly the upcoming events of those
\* categories, whatever the order of the toggles
C4_FiltersByParity ==
    dom.calendarBody # <<>> =>
        /\ \A i \in CurrentMonthCells(dom.calendarBody) :
               LET cell == dom.calendarBody[i]
                   expected == EvenToggledOn(
                       IsoDate(DoctorDashboard.currentDate.y,
                               DoctorDashboard.currentDate.m, cell.day))
               IN  /\ cell.events = Ids(slice(expected, 3))
                   /\ Len(cell.events) + cell.more = Len(expected)
        /\ LET shown == {dom.upcomingEventsList[k] :
                            k \in 1..Len(dom.upcomingEventsList)}
               loaded == {DoctorDashboard.calendarEvents[k] :
                             k \in 1..Len(DoctorDashboard.calendarEvents)}
               upcoming == {evt.id : evt \in {x \in loaded :
                               /\ ParseIsoDateUTC(x.date) >= NowInstant(env)
                               /\ x.category \in EvenToggled}}
           IN  /\ shown \subseteq upcoming
               /\ Cardinality(upcoming) <= 10 => shown = upcoming

\* "consultation" is off, "meeting" has been switched off and on again (it
\* is now the last of the active filters), and events are on show
C4_Witness ==
    /\ lastOp.op = "filterEvents"
    /\ toggles["consultation"] = 1
    /\ toggles["meeting"] = 0
    /\ Len(DoctorDashboard.activeFilters) = 3
    /\ DoctorDashboard.activeFilters[3] = "meeting"
    /\ dom.upcomingEventsList # <<>>
    /\ \E i \in 1..Len(dom.calendarBody) : dom.calendarBody[i].more > 0

\* every event a fetch may load
KnownEvents == FallbackCalendarEvents \o ServerCalendarEvents

EventOfId(id) ==
    KnownEvents[CHOOSE k \in 1..Len(KnownEvents) : KnownEvents[k].id = id]

IsPast(evt, e) ==
    DayNumber(evt.date[1], evt.date[2] - 1, evt.date[3])
        < DayNumber(e.today.y, e.today.m, e.today.d)

\* C5: no event dated before today's (local) date is in the sidebar
\* upcoming list, in the full upcoming view or in today's list
C5_NoPastEvents ==
    \A list \in {dom.upcomingEventsList, dom.upcomingEventsFullList,
                 dom.todaysEventsList} :
        \A k \in 1..Len(list) : ~IsPast(EventOfId(list[k]), env)

\* all three lists show events while the loaded set has a past event
C5_Witness ==
    /\ dom.upcomingEventsList # <<>>
    /\ dom.upcomingEventsFullList # <<>>
    /\ dom.todaysEventsList # <<>>
    /\ \E k \in 1..Len(DoctorDashboard.calendarEvents) :
           IsPast(DoctorDashboard.calendarEvents[k], env)

\* C6: when the calendar fetch is rejected, or its document has no events
\* field or an empty events array, the state bag holds the fallback list
\* when initializeScheduleView ends
C6_FallbackOnFailure ==
    (/\ lastOp.op = "initializeScheduleViewDone"
     /\ lastOp.arg \in {"reject", "no-events", "empty-events"})
        => DoctorDashboard.calendarEvents = FallbackCalendarEvents

\* an empty events array has just been answered: the ten fallback events
\* are loaded and counted
C6_Witness ==
    /\ lastOp = [op |-> "initializeScheduleViewDone", arg |-> "empty-events"]
    /\ Ids(DoctorDashboard.calendarEvents) = <<1, 2, 3, 4, 5, 6, 7, 8, 9, 10>>
    /\ dom.scheduleEventsCount = 10

\* the login form as submitted is invalid
InvalidLogin(a) ==
    IsBlank(a.loginEmail) \/ a.loginPassword < 8 \/ a.loginRole = ""

\* C7: a login submitted with a blank identifier, a password of fewer than
\* 8 characters or no role shows the error of each such field, sends no
\* request and leaves the session store alone
C7_InvalidLoginBlocked ==
    [][(lastOp'.op = "handleLogin" /\ InvalidLogin(auth)) =>
        /\ IsBlank(auth.loginEmail) => auth'.errors["emailError"] # ""
        /\ auth.loginPassword < 8 =>
               auth'.errors["passwordError"]
                   = "Password must be at least 8 characters"
        /\ auth.loginRole = "" => auth'.errors["roleError"] # ""
        /\ auth'.request = "none"
        /\ ~auth'.loading
        /\ auth'.location = "login"
        /\ localStorage' = localStorage]_vars

\* the form was submitted with a password of 5 characters and all else
\* valid: only the password error shows and nothing was sent
C7_Witness ==
    /\ lastOp.op = "handleLogin"
    /\ auth.loginPassword = 5
    /\ auth.loginEmail = "dokter"
    /\ auth.loginRole = "doctor"
    /\ auth.errors = [NoErrors EXCEPT !["passwordError"] =
                         "Password must be at least 8 characters"]
    /\ auth.request = "none"

\* C8: after switchRole(r) the inputs of r's group are enabled and
\* required and the inputs of the other groups disabled and not required
C8_RoleFields ==
    lastOp.op = "switchRole" =>
        \A r \in Roles : \A i \in RoleInputs[r] :
            /\ auth.roleFields[r].disabled[i] = (r # lastOp.arg)
            /\ auth.roleFields[r].required[i] = (r = lastOp.arg)

\* the role was switched from patient (the page's first role) to doctor
C8_Witness ==
    /\ lastOp = [op |-> "switchRole", arg |-> "doctor"]
    /\ auth.roleFields["doctor"].required["licenseId"]
    /\ auth.roleFields["patient"].disabled["dateOfBirth"]
    /\ ~auth.roleFields["patient"].required["medicalRecordNumber"]

VisibleSections == {s \in SectionNames : dom.sectionDisplay[s] # "none"}

\* C9: exactly one of the four panels is visible
C9_ExactlyOneVisible == Cardinality(VisibleSections) = 1

\* C10: showSection with a name that is no section changes neither the
\* panels, nor the recorded section, nor the navigation, nor the data
C10_UnknownSectionNoOp ==
    [][(lastOp'.op = "showSection" /\ lastOp'.arg \notin SectionNames) =>
        /\ dom'.sectionDisplay = dom.sectionDisplay
        /\ dom'.navActive = dom.navActive
        /\ DoctorDashboard' = DoctorDashboard
        /\ FallbackData' = FallbackData]_vars

\* C11: showSection('dashboard') starts initializeDashboard only the first
\* time the dashboard is shown (the load handler has shown it once before
\* any click), while every showSection('schedule') and
\* showSection('messages') starts the section's initializer
C11_DashboardInitOnce ==
    [][lastOp'.op = "showSection" =>
        /\ lastOp'.arg = "dashboard" => pending'.dashboard = pending.dashboard
        /\ lastOp'.arg = "schedule" => pending'.calendar = pending.calendar + 1
        /\ lastOp'.arg = "messages" => pending'.chat = pending.chat + 1]_vars

\* C12: the active chat is null or the id of exactly one loaded participant
C12_ActiveChatLoaded ==
    DoctorDashboard.activeChat # NULL =>
        LET ps == Participants(DoctorDashboard, FallbackData)
        IN  Cardinality({i \in 1..Len(ps) :
                            ps[i].id = DoctorDashboard.activeChat}) = 1

\* the event is dated today (the local date) or later
IsTodayOrLater(evt, e) ==
    DayNumber(evt.date[1], evt.date[2] - 1, evt.date[3])
        >= DayNumber(e.today.y, e.today.m, e.today.d)

\* C13: once rendered, the sidebar upcoming list is the loaded events dated
\* today or later whose category is an active filter, ascending by date and
\* time, cut to the first ten
C13_UpcomingFromToday ==
    dom.calendarBody # <<>> =>
        dom.upcomingEventsList =
            Ids(slice(SortByDateTime(
                    SelectSeq(DoctorDashboard.calendarEvents, LAMBDA evt :
                        /\ IsTodayOrLater(evt, env)
                        /\ includes(DoctorDashboard.activeFilters,
                                    evt.category))), 10))

\* C15: no failed fetch puts a blocking dialog before the user
C15_NoBlockingDialog == ~dom.alertShown

\* C20: every message thread only grows: each step keeps the messages a
\* thread holds, in place, and may append to them
C20_ThreadsAppendOnly ==
    [][\A id \in ChatIds :
          LET old == Thread(DoctorDashboard, id)
              new == Thread(DoctorDashboard', id)
          IN  /\ Len(new) >= Len(old)
              /\ SubSeq(new, 1, Len(old)) = old]_vars

\* C14: when a calendar or chat fetch ends with anything but a 200
\* response whose document holds a non-empty array of events or
\* participants, the state bag holds the fallback records, as after a
\* transport failure
C14_BadResponseIsFallback ==
    /\ (lastOp.op = "initializeScheduleViewDone" /\ lastOp.arg # "events")
           => DoctorDashboard.calendarEvents = FallbackCalendarEvents
    /\ (lastOp.op = "initializeChatDone" /\ lastOp.arg # "participants")
           => DoctorDashboard.chatData = FallbackChatData

\* C16: when handleLogin's request completes, the session store is
\* written and the page leaves for a dashboard only if the response reports
\* success with a user of the role the form was submitted with, and then
\* both happen; when the reported role differs, the role error is shown,
\* the store is unchanged and the page stays
C16_SessionOnlyOnRoleMatch ==
    [][lastOp'.op = "handleLoginDone" =>
        LET userRole == lastOp'.arg
            matched == userRole \in Roles /\ userRole = auth.request
        IN  /\ (localStorage' # localStorage \/ auth'.location # auth.location)
                   => matched
            /\ matched =>
                   /\ localStorage' = StoredUser("object", userRole, "stored")
                   /\ auth'.location = dashboards[userRole]
            /\ (userRole \in Roles /\ userRole # auth.request) =>
                   /\ auth'.errors["roleError"]
                          = "This account is registered as " \o userRole
                   /\ localStorage' = localStorage
                   /\ auth'.location = "login"]_vars

\* the server has reported a patient for a login submitted as another
\* role: the role error shows, the doctor's session is still stored and the
\* page is still the login page
C16_Witness ==
    /\ lastOp = [op |-> "handleLoginDone", arg |-> "patient"]
    /\ auth.errors["roleError"] = "This account is registered as patient"
    /\ auth.location = "login"
    /\ ~auth.loading
    /\ localStorage = DoctorUser

\* every validator of the registration form passes
RegisterValid(r) ==
    /\ ~IsBlank(r.name)
    /\ r.email = "ann@b.c"
    /\ Length(r.password) >= 8
    /\ r.password = r.confirmPassword
    /\ r.termsAccepted
    /\ r.role \in Roles
    /\ \A i \in RoleInputs[r.role] : ~IsBlank(r.values[i])

\* C17: handleRegister sends a registration request only for a form with a
\* non-blank name, a valid email, a password of at least 8 characters that
\* equals its confirmation, the terms accepted, a role selected and every
\* field of that role non-blank
C17_RegisterOnlyIfValid ==
    [][(lastOp'.op = "handleRegister" /\ auth'.register.request.sent)
           => RegisterValid(auth.register)]_vars

\* the stored item is absent or holds a user whose role is not 'doctor'
NoDoctorStored(item) ==
    item.json = "absent" \/ (item.json = "object" /\ item.role # "doctor")

\* C18: the load handler of the doctor dashboard, run without a stored
\* item or with a stored user of another role, sends the page to the login
\* page and fills no header, starts no fetch and shows no section; it goes
\* on to these only for a stored user of role 'doctor'
C18_LoadGuard ==
    [][lastOp'.op = "DOMContentLoaded" =>
        /\ NoDoctorStored(localStorage) =>
               /\ dom'.location = "./login.html"
               /\ dom'.userName = dom.userName
               /\ dom'.sectionDisplay = dom.sectionDisplay
               /\ dom'.navActive = dom.navActive
               /\ pending' = pending
               /\ DoctorDashboard' = DoctorDashboard
        /\ (dom'.userName # dom.userName \/ pending' # pending
            \/ dom'.sectionDisplay # dom.sectionDisplay)
               => (localStorage.json = "object"
                   /\ localStorage.role = "doctor")]_vars

\* the handler has run for a stored patient after app.js's own handler:
\* the page has left for the login page with the header untouched and only
\* app.js's fetch started
C18_Witness ==
    /\ lastOp.op = "DOMContentLoaded"
    /\ localStorage = StoredUser("object", "patient", "stored")
    /\ dom.location = "./login.html"
    /\ dom.userName = "static"
    /\ pending = [dashboard |-> 1, calendar |-> 0, chat |-> 0,
                  notifications |-> 0]

\* the stored item gives no profile: absent, not JSON, null, or an object
\* without a profile
NoProfileStored(item) ==
    item.json \in {"absent", "malformed", "null"} \/ item.profile = "none"

\* C19: when the profile page or the profile modal is loaded and the
\* stored item gives no profile, the fallback profile is shown
C19_ProfileFallback ==
    /\ (lastOp = [op |-> "showSection", arg |-> "profile"]
        /\ NoProfileStored(localStorage)) => dom.profilePage = "fallback"
    /\ (lastOp.op = "openProfileModal" /\ NoProfileStored(localStorage))
           => dom.profileModal.data = "fallback"

\* C21: an activation of the schedule or the messages section issues its
\* fetch whatever is in flight already, every fetch in flight completes on
\* its own, and each completion overwrites the shared dataset with its own
\* result, so that the dataset is that of the completion that ran last
C21_LastCompletionWins ==
    [][/\ lastOp'.op = "showSection" /\ lastOp'.arg = "schedule"
            => pending'.calendar = pending.calendar + 1
       /\ lastOp'.op = "showSection" /\ lastOp'.arg = "messages"
            => pending'.chat = pending.chat + 1
       /\ lastOp'.op = "initializeScheduleViewDone"
            => /\ pending'.calendar = pending.calendar - 1
               /\ DoctorDashboard'.calendarEvents
                      = LoadedCalendarEvents(lastOp'.arg)
       /\ lastOp'.op = "initializeChatDone"
            => /\ pending'.chat = pending.chat - 1
               /\ DoctorDashboard'.chatData = LoadedChatData(lastOp'.arg)]_vars

\* the second of two overlapping calendar fetches has failed after the
\* first brought the server's events, and of two overlapping chat fetches
\* one has brought the server's participants while the other is pending
C21_Witness ==
    /\ lastOp = [op |-> "initializeChatDone", arg |-> "participants"]
    /\ pending.chat = 1
    /\ pending.calendar = 0
    /\ DoctorDashboard.calendarEvents = FallbackCalendarEvents
    /\ dom.scheduleEventsCount > 0
    /\ DoctorDashboard.chatData = ServerChatData

\* the calendar month after and before month m (0-based) of year y, as the
\* title shows a month
FollowingMonth(y, m) == IF m = 11 THEN <<0, y + 1>> ELSE <<m + 1, y>>
PrecedingMonth(y, m) == IF m = 0 THEN <<11, y - 1>> ELSE <<m - 1, y>>

\* C22: from every cursor date nextMonth displays the calendar month that
\* follows the cursor's month and prevMonth the one that precedes it
C22_MonthSteps ==
    [][/\ lastOp'.op = "nextMonth"
            => dom'.calendarTitle
                   = FollowingMonth(DoctorDashboard.currentDate.y,
                                    DoctorDashboard.currentDate.m)
       /\ lastOp'.op = "prevMonth"
            => dom'.calendarTitle
                   = PrecedingMonth(DoctorDashboard.currentDate.y,
                                    DoctorDashboard.currentDate.m)]_vars

\* the loaded participants of the type a chat filter asks for
Matching(filterType) ==
    LET ps == Participants(DoctorDashboard, FallbackData)
    IN  {i \in 1..Len(ps) : filterType = "all" \/ ps[i].type = filterType}

\* lastMessageTime of the loaded participant of this id
TimeOf(participantId) ==
    LET ps == Participants(DoctorDashboard, FallbackData)
    IN  ps[FindParticipant(ps, participantId)].lastMessageTime

\* the participants list shows what renderParticipants(filterType) is to
\* show
RenderedFor(filterType) ==
    LET ps == Participants(DoctorDashboard, FallbackData)
        list == dom.participantsList
    IN  IF Matching(filterType) = {}
        THEN list.kind = "empty" /\ list.items = <<>>
        ELSE /\ list.kind = "items"
             /\ Len(list.items) = Cardinality(Matching(filterType))
             /\ {list.items[k].id : k \in 1..Len(list.items)}
                    = {ps[i].id : i \in Matching(filterType)}
             /\ \A k, l \in 1..Len(list.items) :
                    k < l => TimeOf(list.items[k].id) >= TimeOf(list.items[l].id)
             /\ \A k \in 1..Len(list.items) :
                    list.items[k].active
                        <=> (list.items[k].id = DoctorDashboard.activeChat)

\* C23: after renderParticipants(filterType), called by a click on a
\* filter button with chat data loaded, the list shows exactly the loaded
\* participants of the filter's type, most recent first, with the item of
\* the active chat marked active and no other, or the empty state when
\* none matches
C23_RenderParticipants ==
    (lastOp.op = "filterChatParticipants"
     /\ DoctorDashboard.chatData.src # "null")
        => RenderedFor(lastOp.arg)

\* the patients of the fallback list are shown, the second of them active
C23_Witness ==
    /\ lastOp = [op |-> "filterChatParticipants", arg |-> "patient"]
    /\ DoctorDashboard.chatData.src = "fallback"
    /\ DoctorDashboard.activeChat = "p3"
    /\ Len(dom.participantsList.items) = 3
    /\ dom.participantsList.items[2].active

ScheduleControls ==
    {"filterEvents", "prevMonth", "nextMonth", "goToToday",
     "switchScheduleView"}

\* C24: filterEvents, prevMonth, nextMonth, goToToday and
\* switchScheduleView start no fetch and leave the loaded events as they
\* are, in content and order; filterEvents leaves the month cursor and the
\* active sub-view as they are, and switchScheduleView the cursor and the
\* active filters
C24_ControlsFrame ==
    [][/\ lastOp'.op \in ScheduleControls
            => /\ pending' = pending
               /\ DoctorDashboard'.calendarEvents
                      = DoctorDashboard.calendarEvents
       /\ lastOp'.op = "filterEvents"
            => /\ DoctorDashboard'.currentDate = DoctorDashboard.currentDate
               /\ DoctorDashboard'.activeScheduleView
                      = DoctorDashboard.activeScheduleView
               /\ dom'.scheduleViewDisplay = dom.scheduleViewDisplay
       /\ lastOp'.op = "switchScheduleView"
            => /\ DoctorDashboard'.currentDate = DoctorDashboard.currentDate
               /\ DoctorDashboard'.activeFilters
                      = DoctorDashboard.activeFilters]_vars

\* the consultations are on show after a switch, with the server's events
\* loaded, the cursor moved off today's month and the meeting filter off
C24_Witness ==
    /\ lastOp = [op |-> "switchScheduleView", arg |-> "consultations"]
    /\ DoctorDashboard.calendarEvents = ServerCalendarEvents
    /\ DoctorDashboard.currentDate.m # env.today.m
    /\ ~includes(DoctorDashboard.activeFilters, "meeting")
    /\ pending.calendar = 0

\* C25: the active schedule sub-view, and the panel on show, change only
\* by switchScheduleView as the doctor calls it; the completion of a
\* calendar fetch leaves the selected sub-view in place
C25_ViewOnlyBySelection ==
    [][lastOp'.op # "switchScheduleView"
          => /\ DoctorDashboard'.activeScheduleView
                    = DoctorDashboard.activeScheduleView
             /\ (lastOp.op = "switchScheduleView"
                    => dom'.scheduleViewDisplay = dom.scheduleViewDisplay)]_vars

\* C26: at all times the chat search input has at most one input listener,
\* the profile button at most one click listener and each chart filter
\* button at most one click listener
C26_NoDuplicateListeners ==
    /\ dom.chatSearchListeners <= 1
    /\ dom.profileBtnListeners <= 1
    /\ dom.chartFilterListeners <= 1

\* C27: when the doctor comes back to the messages section from another
\* section, the active chat participant is the one that was active before
C27_SelectionPersists ==
    [][(lastOp'.op = "showSection" /\ lastOp'.arg = "messages"
        /\ DoctorDashboard.activeSection # "messages"
        /\ DoctorDashboard.activeChat # NULL)
          => DoctorDashboard'.activeChat = DoctorDashboard.activeChat]_vars

\* C28: every completion of a chat fetch that fails or brings no
\* participants leaves the built-in fallback participants as they were
\* written in the script, unread counts, lastMessage and lastMessageTime
\* included, with an empty message map
C28_FallbackIsPristine ==
    [][(lastOp'.op = "initializeChatDone"
        /\ lastOp'.arg \in {"reject", "empty-participants"})
          => /\ DoctorDashboard'.chatData.src = "fallback"
             /\ Participants(DoctorDashboard', FallbackData')
                    = FallbackChatParticipants
             /\ DoctorDashboard'.chatData.messages = NoMessages]_vars

\* C29: after filterChatParticipants(t) with chat data loaded, the
\* recorded chat filter is t, also when no participant is of type t
C29_FilterRecorded ==
    (lastOp.op = "filterChatParticipants"
     /\ DoctorDashboard.chatData.src # "null")
        => DoctorDashboard.currentFilter = lastOp.arg

\* C30: in every state the chat header shows the active conversation
\* exactly when a participant is the active chat, and the placeholder (or
\* the page's markup before the first load) exactly when none is
C30_HeaderMatchesActiveChat ==
    (dom.chatHeader = "active") <=> (DoctorDashboard.activeChat # NULL)

=============================================================================
